---- MODULE Spec2Model ----
(***************************************************************************)
(* Model of the coco-pik backend: the fetch handler of src/src/index.ts    *)
(* (and its copy with the /g/:code landing page in src/unnamed/part_001)   *)
(* running against the User / Group / GroupMember tables of the prisma    *)
(* migrations.  Every await on the store is one atomic step; requests of  *)
(* different slots interleave between their store operations, and the      *)
(* wall clock may advance between any two steps.                           *)
(***************************************************************************)
EXTENDS Integers, FiniteSets, Sequences, TLC

VARIABLES users, groups, members, now, pc, req, loc, hist, nreq, out

vars == <<users, groups, members, now, pc, req, loc, hist, nreq, out>>

(* ---------------------------- bounds ----------------------------------- *)

MaxRequests == 2
MaxTime == 2

Procs == {"p1", "p2"}
Tokens == {"t1", "t2"}
Codes == {"c1", "c2"}
ModelIds == {"m1"}
\* optional values are sets with at most one element: {} is undefined/null
Titles == {{}}
ExpirationHours == {{}, {0}, {1}, {-1}}

(* ---------------------------- store ------------------------------------ *)

\* rows selected by a key (a unique key selects a set of 0 or 1 rows)
UserByToken(t) == {u \in users : u.deviceToken = t}
GroupByCode(c) == {g \in groups : g.inviteCode = c}
MembersOf(gid) == {m \in members : m.groupId = gid}
Membership(uid, gid) == {m \in members : m.userId = uid /\ m.groupId = gid}
\* mutant: the created groups taken from the user's memberships
CreatedGroups_ByMembership(uid) ==
    {g \in groups : \E m \in members : m.userId = uid /\ m.groupId = g.id}
CreatedGroups(uid) == {g \in groups : g.creatorId = uid}
Memberships(uid) == {m \in members : m.userId = uid}
GroupById(gid) == CHOOSE g \in groups : g.id = gid

\* primary keys: a fresh id per inserted row (rows are never deleted)
NewUserId == Cardinality(users) + 1
NewGroupId == Cardinality(groups) + 1
NewMemberId == Cardinality(members) + 1

\* unique indexes of the schema: TRUE when the insert is accepted
\* mutants: the table without its unique index
User_deviceToken_key_Dropped(t) == TRUE
Group_inviteCode_key_Dropped(c) == TRUE
GroupMember_userId_groupId_key_Dropped(uid, gid) == TRUE

User_deviceToken_key(t) == UserByToken(t) = {}
Group_inviteCode_key(c) == GroupByCode(c) = {}
GroupMember_userId_groupId_key(uid, gid) == Membership(uid, gid) = {}

(* ---------------------------- helpers ---------------------------------- *)

\* JavaScript truthiness of an optional number / of a string
TruthyNum(o) == \E h \in o : h # 0
Falsy(s) == s = ""

\* mutants of the expiry test: the null guard dropped (null < new Date() is
\* true in JavaScript), and <= written for <
JoinExpired_NoNullGuard(expiresAt, t) == \A e \in expiresAt : e < t
LandingExpired_OrEqual(expiresAt, t) == \E e \in expiresAt : e <= t

\* group.expiresAt && group.expiresAt < new Date(), as written in each route
JoinExpired(expiresAt, t) == \E e \in expiresAt : e < t
GetExpired(expiresAt, t) == \E e \in expiresAt : e < t
LandingExpired(expiresAt, t) == \E e \in expiresAt : e < t

\* body.expirationHours ? new Date(Date.now() + hours) : null   (unit: hours)
ComputeExpiresAt(hours, t) == IF TruthyNum(hours) THEN {t + h : h \in hours} ELSE {}

NoReq == [kind |-> "none", deviceToken |-> "", modelId |-> "", title |-> {},
          expirationHours |-> {}, code |-> ""]
NoLoc == [userId |-> 0, inviteCode |-> "", expiresAt |-> {}, groupId |-> 0,
          membersLength |-> 0]
\* history of a request in flight (not program state):
\*   wasMember: the token held a membership of the non-expired group when the
\*              join request arrived
\*   joined:    a join inserted a membership into the group this create-group
\*              request has inserted
\*   countAfter: the number of GroupMember rows of the group right after this
\*              join request's own insert (0: it has inserted nothing)
NoHist == [wasMember |-> FALSE, joined |-> FALSE, countAfter |-> 0]

\* a completed exchange: the response (status, body, logged error) together
\* with the request it answers (route, deviceToken, code) and its history
NoResp == [status |-> 0, body |-> "", groupId |-> 0, inviteCode |-> "",
           expiresAt |-> {}, memberCount |-> 0, members |-> {}, groups |-> {},
           logged |-> "", route |-> "", deviceToken |-> "", code |-> "",
           modelId |-> "", hist |-> NoHist]

\* the JSON projection of a group with its member list
Projection(g) ==
    [groupId |-> g.id, inviteCode |-> g.inviteCode, expiresAt |-> g.expiresAt,
     memberCount |-> Cardinality(MembersOf(g.id)),
     members |-> {m.userId : m \in MembersOf(g.id)}]

GroupResponse(body, g) ==
    [NoResp EXCEPT !.status = 200, !.body = body,
                   !.groupId = Projection(g).groupId,
                   !.inviteCode = Projection(g).inviteCode,
                   !.expiresAt = Projection(g).expiresAt,
                   !.memberCount = Projection(g).memberCount,
                   !.members = Projection(g).members]

Exchange(route, token, code, h, r) ==
    [r EXCEPT !.route = route, !.deviceToken = token, !.code = code, !.hist = h]

CreateRequests ==
    [kind : {"create"}, deviceToken : Tokens, modelId : ModelIds,
     title : Titles, expirationHours : ExpirationHours, code : {""}]
    \cup
    [kind : {"create"}, deviceToken : {"", "t1"}, modelId : {""},
     title : {{}}, expirationHours : {{}}, code : {""}]
    \cup
    [kind : {"create"}, deviceToken : {""}, modelId : ModelIds,
     title : {{}}, expirationHours : {{}}, code : {""}]

JoinRequests ==
    [kind : {"join"}, deviceToken : Tokens \cup {""}, modelId : {""},
     title : {{}}, expirationHours : {{}}, code : Codes]

\* the program points that are an await on the store
StoreOps == {"ensureFind", "ensureCreate", "allocate", "groupCreate", "memberCreate",
             "joinFind", "joinCheck", "joinCreate"}

\* the response is returned and the request's locals are gone
Reply(p, r) ==
    /\ out' = [Exchange(req[p].kind, req[p].deviceToken, req[p].code, hist[p], r)
                 EXCEPT !.modelId = req[p].modelId]
    /\ pc' = [pc EXCEPT ![p] = "idle"]
    /\ req' = [req EXCEPT ![p] = NoReq]
    /\ loc' = [loc EXCEPT ![p] = NoLoc]
    /\ hist' = [hist EXCEPT ![p] = NoHist]

jsonResponse(body, status) == [NoResp EXCEPT !.status = status, !.body = body]
errorResponse(message, status) == jsonResponse(message, status)

\* a request arrives at a free slot
Accept(p, r, entry) ==
    /\ pc[p] = "idle"
    /\ nreq < MaxRequests
    /\ nreq' = nreq + 1
    /\ req' = [req EXCEPT ![p] = r]
    /\ pc' = [pc EXCEPT ![p] = entry]

\* the catch block of fetch: log the error, answer 500
Catch(p, e) ==
    Reply(p, [errorResponse("Internal server error", 500) EXCEPT !.logged = e])

\* a membership of a non-expired group held by the token when the request arrives
AlreadyMember(t, c) ==
    \E u \in UserByToken(t) : \E g \in GroupByCode(c) :
        /\ ~JoinExpired(g.expiresAt, now)
        /\ Membership(u.id, g.id) # {}

(* ---------------------------- initial state ---------------------------- *)

Init ==
    /\ users = {}
    /\ groups = {}
    /\ members = {}
    /\ now = 0
    /\ pc = [p \in Procs |-> "idle"]
    /\ req = [p \in Procs |-> NoReq]
    /\ loc = [p \in Procs |-> NoLoc]
    /\ hist = [p \in Procs |-> NoHist]
    /\ nreq = 0
    /\ out = NoResp

\* the wall clock advances
Tick ==
    /\ now < MaxTime
    /\ now' = now + 1
    /\ UNCHANGED <<users, groups, members, pc, req, loc, hist, nreq>>
    /\ out' = NoResp

\* mutant: the catch block deletes the group the failed request has inserted
StoreFailure_Rollback(p) ==
    /\ pc[p] \in StoreOps
    /\ Catch(p, "store")
    /\ groups' = {g \in groups : g.id # loc[p].groupId \/ req[p].kind # "create"}
    /\ UNCHANGED <<users, members, now, nreq>>

\* a pending store operation throws (store unavailable); the catch block answers 500
StoreFailure(p) ==
    /\ pc[p] \in StoreOps
    /\ Catch(p, "store")
    /\ UNCHANGED <<users, groups, members, now, nreq>>

(* ---------------------------- ensureUser ------------------------------- *)

EnsureUserNext(p) == IF req[p].kind = "create" THEN "allocate" ELSE "joinFind"

EnsureUserFind(p) ==
    /\ pc[p] = "ensureFind"
    /\ IF UserByToken(req[p].deviceToken) # {}
       THEN /\ loc' = [loc EXCEPT ![p].userId =
                          (CHOOSE u \in UserByToken(req[p].deviceToken) : TRUE).id]
            /\ pc' = [pc EXCEPT ![p] = EnsureUserNext(p)]
       ELSE /\ pc' = [pc EXCEPT ![p] = "ensureCreate"]
            /\ UNCHANGED loc
    /\ UNCHANGED <<users, groups, members, now, req, hist, nreq>>
    /\ out' = NoResp

EnsureUserCreate(p) ==
    /\ pc[p] = "ensureCreate"
    /\ IF User_deviceToken_key(req[p].deviceToken)
       THEN /\ users' = users \cup {[id |-> NewUserId, deviceToken |-> req[p].deviceToken]}
            /\ loc' = [loc EXCEPT ![p].userId = NewUserId]
            /\ pc' = [pc EXCEPT ![p] = EnsureUserNext(p)]
            /\ UNCHANGED <<req, hist>> /\ out' = NoResp
       ELSE /\ Catch(p, "P2002 User_deviceToken_key")
            /\ UNCHANGED users
    /\ UNCHANGED <<groups, members, now, nreq>>

(* ---------------------------- POST /api/groups ------------------------- *)

\* mutant: only deviceToken is validated
CreateGroup_TokenOnly(p) ==
    /\ \E r \in CreateRequests :
        IF Falsy(r.deviceToken)
        THEN /\ Accept(p, NoReq, "idle")
             /\ out' = [Exchange("create", r.deviceToken, "", NoHist,
                            errorResponse("deviceToken and modelId are required", 400))
                          EXCEPT !.modelId = r.modelId]
        ELSE /\ Accept(p, r, "ensureFind")
             /\ out' = NoResp
    /\ UNCHANGED <<users, groups, members, now, loc, hist>>

\* the request arrives and its body is validated
CreateGroup(p) ==
    /\ \E r \in CreateRequests :
        IF Falsy(r.deviceToken) \/ Falsy(r.modelId)
        THEN /\ Accept(p, NoReq, "idle")
             /\ out' = [Exchange("create", r.deviceToken, "", NoHist,
                            errorResponse("deviceToken and modelId are required", 400))
                          EXCEPT !.modelId = r.modelId]
        ELSE /\ Accept(p, r, "ensureFind")
             /\ out' = NoResp
    /\ UNCHANGED <<users, groups, members, now, loc, hist>>

\* mutant: the drawn code is used without the lookup
AllocateDraw_NoLookup(p, c) ==
    /\ pc[p] = "allocate"
    /\ loc' = [loc EXCEPT ![p].inviteCode = c,
                          ![p].expiresAt = ComputeExpiresAt(req[p].expirationHours, now)]
    /\ pc' = [pc EXCEPT ![p] = "groupCreate"]
    /\ UNCHANGED <<users, groups, members, now, req, hist, nreq>>
    /\ out' = NoResp

\* one iteration of the do-while loop with the draw c: look the code up, leave
\* the loop when no group has it
AllocateDraw(p, c) ==
    /\ pc[p] = "allocate"
    /\ IF GroupByCode(c) = {}
       THEN /\ loc' = [loc EXCEPT ![p].inviteCode = c,
                                  ![p].expiresAt = ComputeExpiresAt(req[p].expirationHours, now)]
            /\ pc' = [pc EXCEPT ![p] = "groupCreate"]
       ELSE UNCHANGED <<loc, pc>>
    /\ UNCHANGED <<users, groups, members, now, req, hist, nreq>>
    /\ out' = NoResp

\* generateInviteCode draws any code of the code space
AllocateInviteCode(p) == \E c \in Codes : AllocateDraw(p, c)

\* mutant: the group is written with an upsert on inviteCode
GroupCreate_Upsert(p) ==
    /\ pc[p] = "groupCreate"
    /\ groups' = {g \in groups : g.inviteCode # loc[p].inviteCode} \cup
           {[id |-> NewGroupId, inviteCode |-> loc[p].inviteCode,
             modelId |-> req[p].modelId, creatorId |-> loc[p].userId,
             title |-> req[p].title, expiresAt |-> loc[p].expiresAt]}
    /\ loc' = [loc EXCEPT ![p].groupId = NewGroupId]
    /\ pc' = [pc EXCEPT ![p] = "memberCreate"]
    /\ UNCHANGED <<req, hist>> /\ out' = NoResp
    /\ UNCHANGED <<users, members, now, nreq>>

GroupCreate(p) ==
    /\ pc[p] = "groupCreate"
    /\ IF Group_inviteCode_key(loc[p].inviteCode)
       THEN /\ groups' = groups \cup
                   {[id |-> NewGroupId, inviteCode |-> loc[p].inviteCode,
                     modelId |-> req[p].modelId, creatorId |-> loc[p].userId,
                     title |-> req[p].title, expiresAt |-> loc[p].expiresAt]}
            /\ loc' = [loc EXCEPT ![p].groupId = NewGroupId]
            /\ pc' = [pc EXCEPT ![p] = "memberCreate"]
            /\ UNCHANGED <<req, hist>> /\ out' = NoResp
       ELSE /\ Catch(p, "P2002 Group_inviteCode_key")
            /\ UNCHANGED groups
    /\ UNCHANGED <<users, members, now, nreq>>

\* mutant: the creator's membership insert is left out
CreatorMemberCreate_Skipped(p) ==
    /\ pc[p] = "memberCreate"
    /\ pc' = [pc EXCEPT ![p] = "createRespond"]
    /\ UNCHANGED <<users, groups, members, now, req, loc, hist, nreq>>
    /\ out' = NoResp

CreatorMemberCreate(p) ==
    /\ pc[p] = "memberCreate"
    /\ IF GroupMember_userId_groupId_key(loc[p].userId, loc[p].groupId)
       THEN /\ members' = members \cup
                   {[id |-> NewMemberId, userId |-> loc[p].userId, groupId |-> loc[p].groupId]}
            /\ pc' = [pc EXCEPT ![p] = "createRespond"]
            /\ UNCHANGED <<req, loc, hist>> /\ out' = NoResp
       ELSE /\ Catch(p, "P2002 GroupMember_userId_groupId_key")
            /\ UNCHANGED members
    /\ UNCHANGED <<users, groups, now, nreq>>

CreateRespond(p) ==
    /\ pc[p] = "createRespond"
    /\ Reply(p, [jsonResponse("created", 201) EXCEPT
                    !.groupId = loc[p].groupId, !.inviteCode = loc[p].inviteCode,
                    !.expiresAt = loc[p].expiresAt, !.memberCount = 1])
    /\ UNCHANGED <<users, groups, members, now, nreq>>

(* ---------------------------- POST /api/groups/:code/join -------------- *)

JoinGroup(p) ==
    /\ \E r \in JoinRequests :
        IF Falsy(r.deviceToken)
        THEN /\ Accept(p, NoReq, "idle")
             /\ out' = Exchange("join", r.deviceToken, r.code, NoHist,
                           errorResponse("deviceToken is required", 400))
             /\ UNCHANGED hist
        ELSE /\ Accept(p, r, "ensureFind")
             /\ out' = NoResp
             /\ hist' = [hist EXCEPT ![p].wasMember = AlreadyMember(r.deviceToken, r.code)]
    /\ UNCHANGED <<users, groups, members, now, loc>>

\* mutant: the membership is looked up before the expiry check
JoinFindGroup_MemberFirst(p) ==
    /\ pc[p] = "joinFind"
    /\ IF GroupByCode(req[p].code) = {}
       THEN Reply(p, errorResponse("Group not found", 404))
       ELSE LET group == CHOOSE g \in GroupByCode(req[p].code) : TRUE IN
            IF Membership(loc[p].userId, group.id) # {}
            THEN Reply(p, errorResponse("User is already a member of this group", 400))
            ELSE IF JoinExpired(group.expiresAt, now)
            THEN Reply(p, errorResponse("Group invitation has expired", 410))
            ELSE /\ loc' = [loc EXCEPT ![p].groupId = group.id,
                                       ![p].membersLength = Cardinality(MembersOf(group.id))]
                 /\ pc' = [pc EXCEPT ![p] = "joinCheck"]
                 /\ UNCHANGED <<req, hist>> /\ out' = NoResp
    /\ UNCHANGED <<users, groups, members, now, nreq>>

\* mutant: a join for an unknown code removes the user it resolved
JoinFindGroup_DropsUser(p) ==
    /\ pc[p] = "joinFind"
    /\ IF GroupByCode(req[p].code) = {}
       THEN /\ Reply(p, errorResponse("Group not found", 404))
            /\ users' = {u \in users : u.id # loc[p].userId}
       ELSE LET group == CHOOSE g \in GroupByCode(req[p].code) : TRUE IN
            /\ IF JoinExpired(group.expiresAt, now)
               THEN Reply(p, errorResponse("Group invitation has expired", 410))
               ELSE /\ loc' = [loc EXCEPT ![p].groupId = group.id,
                                          ![p].membersLength = Cardinality(MembersOf(group.id))]
                    /\ pc' = [pc EXCEPT ![p] = "joinCheck"]
                    /\ UNCHANGED <<req, hist>> /\ out' = NoResp
            /\ UNCHANGED users
    /\ UNCHANGED <<groups, members, now, nreq>>

\* group.findUnique with its members, then the not-found and expiry checks
JoinFindGroup(p) ==
    /\ pc[p] = "joinFind"
    /\ IF GroupByCode(req[p].code) = {}
       THEN Reply(p, errorResponse("Group not found", 404))
       ELSE LET group == CHOOSE g \in GroupByCode(req[p].code) : TRUE IN
            IF JoinExpired(group.expiresAt, now)
            THEN Reply(p, errorResponse("Group invitation has expired", 410))
            ELSE /\ loc' = [loc EXCEPT ![p].groupId = group.id,
                                       ![p].membersLength = Cardinality(MembersOf(group.id))]
                 /\ pc' = [pc EXCEPT ![p] = "joinCheck"]
                 /\ UNCHANGED <<req, hist>> /\ out' = NoResp
    /\ UNCHANGED <<users, groups, members, now, nreq>>

\* mutant: the existence check looks up nothing and always goes on to insert
JoinCheckMembership_Blind(p) ==
    /\ pc[p] = "joinCheck"
    /\ pc' = [pc EXCEPT ![p] = "joinCreate"]
    /\ UNCHANGED <<users, groups, members, now, req, loc, hist, nreq>>
    /\ out' = NoResp

\* groupMember.findUnique on (userId, groupId)
JoinCheckMembership(p) ==
    /\ pc[p] = "joinCheck"
    /\ IF Membership(loc[p].userId, loc[p].groupId) # {}
       THEN Reply(p, errorResponse("User is already a member of this group", 400))
       ELSE /\ pc' = [pc EXCEPT ![p] = "joinCreate"]
            /\ UNCHANGED <<req, loc, hist>> /\ out' = NoResp
    /\ UNCHANGED <<users, groups, members, now, nreq>>

JoinMemberCreate(p) ==
    /\ pc[p] = "joinCreate"
    /\ IF GroupMember_userId_groupId_key(loc[p].userId, loc[p].groupId)
       THEN /\ members' = members \cup
                   {[id |-> NewMemberId, userId |-> loc[p].userId, groupId |-> loc[p].groupId]}
            /\ pc' = [pc EXCEPT ![p] = "joinRespond"]
            /\ hist' = [q \in Procs |->
                   IF req[q].kind = "create" /\ loc[q].groupId = loc[p].groupId
                   THEN [hist[q] EXCEPT !.joined = TRUE]
                   ELSE IF q = p
                   THEN [hist[q] EXCEPT
                           !.countAfter = Cardinality(MembersOf(loc[p].groupId)) + 1]
                   ELSE hist[q]]
            /\ UNCHANGED <<req, loc>> /\ out' = NoResp
       ELSE /\ Catch(p, "P2002 GroupMember_userId_groupId_key")
            /\ UNCHANGED members
    /\ UNCHANGED <<users, groups, now, nreq>>

JoinRespond(p) ==
    /\ pc[p] = "joinRespond"
    /\ Reply(p, [jsonResponse("joined", 200) EXCEPT
                    !.groupId = loc[p].groupId,
                    !.memberCount = loc[p].membersLength + 1])
    /\ UNCHANGED <<users, groups, members, now, nreq>>

(* ---------------------------- read routes ------------------------------ *)

\* a read route is one store lookup: the request arrives, the lookup runs (or
\* throws) and the response is shaped from its result
ReadRoute(p, route, token, code, r) ==
    /\ Accept(p, NoReq, "idle")
    /\ \/ out' = Exchange(route, token, code, NoHist, r)
       \/ out' = Exchange(route, token, code, NoHist,
                     [errorResponse("Internal server error", 500) EXCEPT !.logged = "store"])
    /\ UNCHANGED <<users, groups, members, now, loc, hist>>

\* GET /api/groups/:code
GetGroupResponse(code) ==
    IF GroupByCode(code) = {} THEN errorResponse("Group not found", 404)
    ELSE LET group == CHOOSE g \in GroupByCode(code) : TRUE IN
         IF GetExpired(group.expiresAt, now)
         THEN errorResponse("Group invitation has expired", 410)
         ELSE GroupResponse("group", group)

GetGroupDetails(p) ==
    \E code \in Codes : ReadRoute(p, "get", "", code, GetGroupResponse(code))

\* GET /g/:code : every page is sent with the default status 200
LandingPageResponse(code) ==
    IF GroupByCode(code) = {} THEN jsonResponse("page: Group Not Found", 200)
    ELSE LET group == CHOOSE g \in GroupByCode(code) : TRUE IN
         IF LandingExpired(group.expiresAt, now)
         THEN jsonResponse("page: Invitation Expired", 200)
         ELSE GroupResponse("page: Join Group", group)

LandingPage(p) ==
    \E code \in Codes : ReadRoute(p, "landing", "", code, LandingPageResponse(code))

\* GET /api/users/:deviceToken/groups
UserGroupsResponse(t) ==
    IF UserByToken(t) = {} THEN errorResponse("User not found", 404)
    ELSE LET user == CHOOSE u \in UserByToken(t) : TRUE IN
         [jsonResponse("groups", 200) EXCEPT
            !.groups = {Projection(GroupById(m.groupId)) : m \in Memberships(user.id)}]

\* mutant: the route resolves the token with ensureUser
UserGroups_EnsureUser(p) ==
    \E t \in Tokens :
        /\ Accept(p, NoReq, "idle")
        /\ users' = IF UserByToken(t) = {}
                    THEN users \cup {[id |-> NewUserId, deviceToken |-> t]}
                    ELSE users
        /\ out' = Exchange("groups", t, "", NoHist,
                      [jsonResponse("groups", 200) EXCEPT
                         !.groups = {Projection(GroupById(m.groupId)) :
                                       m \in UNION {Memberships(u.id) : u \in UserByToken(t)}}])
        /\ UNCHANGED <<groups, members, now, loc, hist>>

UserGroups(p) ==
    \E t \in Tokens : ReadRoute(p, "groups", t, "", UserGroupsResponse(t))

\* GET /api/users/:deviceToken/created-groups
UserCreatedGroupsResponse(t) ==
    IF UserByToken(t) = {} THEN errorResponse("User not found", 404)
    ELSE LET user == CHOOSE u \in UserByToken(t) : TRUE IN
         [jsonResponse("createdGroups", 200) EXCEPT
            !.groups = {Projection(g) : g \in CreatedGroups(user.id)}]

UserCreatedGroups(p) ==
    \E t \in Tokens : ReadRoute(p, "created", t, "", UserCreatedGroupsResponse(t))

\* GET / : the API description, no store access
ApiInfo(p) ==
    /\ Accept(p, NoReq, "idle")
    /\ out' = Exchange("info", "", "", NoHist, jsonResponse("Coco-Pik Backend API", 200))
    /\ UNCHANGED <<users, groups, members, now, loc, hist>>

\* OPTIONS on any path: the CORS headers and no body, no store access
Preflight(p) ==
    /\ Accept(p, NoReq, "idle")
    /\ out' = Exchange("options", "", "", NoHist, jsonResponse("", 200))
    /\ UNCHANGED <<users, groups, members, now, loc, hist>>

(* ---------------------------- specification ---------------------------- *)

Next ==
    \/ Tick
    \/ \E p \in Procs : StoreFailure(p)
    \/ \E p \in Procs : EnsureUserFind(p)
    \/ \E p \in Procs : EnsureUserCreate(p)
    \/ \E p \in Procs : CreateGroup(p)
    \/ \E p \in Procs : AllocateInviteCode(p)
    \/ \E p \in Procs : GroupCreate(p)
    \/ \E p \in Procs : CreatorMemberCreate(p)
    \/ \E p \in Procs : CreateRespond(p)
    \/ \E p \in Procs : JoinGroup(p)
    \/ \E p \in Procs : JoinFindGroup(p)
    \/ \E p \in Procs : JoinCheckMembership(p)
    \/ \E p \in Procs : JoinMemberCreate(p)
    \/ \E p \in Procs : JoinRespond(p)
    \/ \E p \in Procs : GetGroupDetails(p)
    \/ \E p \in Procs : LandingPage(p)
    \/ \E p \in Procs : UserGroups(p)
    \/ \E p \in Procs : UserCreatedGroups(p)
    \/ \E p \in Procs : ApiInfo(p)
    \/ \E p \in Procs : Preflight(p)

Spec == Init /\ [][Next]_vars

\* The store after one create-group request by t1 with code c1 has completed:
\* answered 201 (the creator is a member) or answered 500 because the
\* creator's membership insert threw (the group has no member).
SeededCode == "c1"

InitSeeded ==
    /\ users = {[id |-> 1, deviceToken |-> "t1"]}
    /\ \E e \in {{}, {1}} :
          groups = {[id |-> 1, inviteCode |-> SeededCode, modelId |-> "m1", creatorId |-> 1,
                     title |-> {}, expiresAt |-> e]}
    /\ members \in {{[id |-> 1, userId |-> 1, groupId |-> 1]}, {}}
    /\ now = 0
    /\ pc = [p \in Procs |-> "idle"]
    /\ req = [p \in Procs |-> NoReq]
    /\ loc = [p \in Procs |-> NoLoc]
    /\ hist = [p \in Procs |-> NoHist]
    /\ nreq = 0
    /\ out = NoResp

SpecSeeded == InitSeeded /\ [][Next]_vars

\* Create-group requests alone (no other route writes the Group table), with
\* a fair random draw: a code whose draw would leave the loop is drawn
\* eventually.
NextCreate ==
    \/ \E p \in Procs : StoreFailure(p)
    \/ \E p \in Procs : EnsureUserFind(p)
    \/ \E p \in Procs : EnsureUserCreate(p)
    \/ \E p \in Procs : CreateGroup(p)
    \/ \E p \in Procs : AllocateInviteCode(p)
    \/ \E p \in Procs : GroupCreate(p)
    \/ \E p \in Procs : CreatorMemberCreate(p)
    \/ \E p \in Procs : CreateRespond(p)

FairDraw == \A p \in Procs : \A c \in Codes : WF_vars(AllocateDraw(p, c))

SpecFairDraw == InitSeeded /\ [][NextCreate]_vars /\ FairDraw

(* ---------------------------- properties ------------------------------- *)

\* the response just sent answers a create-group request with 201
Created == out.route = "create" /\ out.status = 201

\* C1: every Group row has a GroupMember row of its creator from the moment
\* the Group row exists, whatever the interleaving and the store failures.
C1_CreatorAlwaysMember ==
    \A g \in groups : Membership(g.creatorId, g.id) # {}

\* C2 (as stated): at the moment of a 201 create-group response the created
\* group has exactly one GroupMember row, it is the creator's, and the response
\* reports memberCount = 1, also when join requests run concurrently.
C2_ExactlyOneMemberAtResponse ==
    Created =>
        /\ Cardinality(MembersOf(out.groupId)) = 1
        /\ \A m \in MembersOf(out.groupId) : m.userId = GroupById(out.groupId).creatorId
        /\ out.memberCount = 1

\* C2 (amended): at the moment of a 201 create-group response the created
\* group has exactly one GroupMember row of the creator (the user of the
\* request's device token) and the response reports memberCount = 1; that row
\* is the group's only row unless a join inserted a membership into the new
\* group before the response.
C2_CreatorMemberAtResponse ==
    Created =>
        LET group == GroupById(out.groupId) IN
        /\ \E u \in UserByToken(out.deviceToken) : u.id = group.creatorId
        /\ Cardinality(Membership(group.creatorId, group.id)) = 1
        /\ out.memberCount = 1
        /\ ~out.hist.joined => Cardinality(MembersOf(group.id)) = 1

C2_Witness ==
    /\ Created
    /\ ~out.hist.joined
    /\ Cardinality(MembersOf(out.groupId)) = 1

\* C3: there is at most one GroupMember row per (userId, groupId) pair in
\* every reachable state, for every interleaving of joins and creates.
C3_OneMembershipPerPair ==
    \A m1, m2 \in members :
        (m1.userId = m2.userId /\ m1.groupId = m2.groupId) => m1 = m2

\* a membership insert that lost the race was rejected by the unique index
C3_Witness ==
    /\ out.logged = "P2002 GroupMember_userId_groupId_key"
    /\ members # {}

\* C4: no two Group rows have the same inviteCode in any reachable state,
\* also when two creates draw the same code and both pass the lookup.
C4_InviteCodeUnique ==
    \A g1, g2 \in groups : g1.inviteCode = g2.inviteCode => g1 = g2

\* a create that passed the lookup was rejected by the unique index
C4_Witness ==
    /\ out.logged = "P2002 Group_inviteCode_key"
    /\ groups # {}

\* the response just sent is not the 500 of a store operation that threw
\* because the store was unavailable
Answered == out.status # 0 /\ out.logged # "store"

\* a step of the request in slot p
StepOf(p) == pc'[p] # pc[p]

\* C5: a join by a device token that already is a member of the non-expired
\* group is answered 400 'already a member', and no step of that request
\* changes the GroupMember table.
C5_JoinIdempotent ==
    /\ [](  (/\ Answered
             /\ out.route = "join"
             /\ out.hist.wasMember
             /\ \A g \in GroupByCode(out.code) : \A e \in g.expiresAt : e >= now)
          => (/\ out.status = 400
              /\ out.body = "User is already a member of this group"))
    /\ [][\A p \in Procs :
            (StepOf(p) /\ req[p].kind = "join" /\ hist[p].wasMember)
                => members' = members]_vars

C5_Witness ==
    /\ out.route = "join"
    /\ out.hist.wasMember
    /\ out.status = 400
    /\ \E g \in GroupByCode(out.code) : MembersOf(g.id) # {}

\* C6: a group whose expiresAt is set and in the past is answered 410 by
\* get-by-code, join and the landing page, and the two list-by-user routes
\* never return its projection.
C6_ExpiredIsGone ==
    Answered =>
        /\ (/\ out.route \in {"get", "join", "landing"}
            /\ out.route = "join" => out.deviceToken # ""
            /\ \E g \in GroupByCode(out.code) : \E e \in g.expiresAt : e < now)
           => out.status = 410
        /\ out.route \in {"groups", "created"}
           => \A pr \in out.groups : \A e \in pr.expiresAt : e >= now

\* the group of a code never expires
NeverExpires(code) == \E g \in GroupByCode(code) : g.expiresAt = {}

\* in slot p a join for a never-expiring group is in flight and its user is
\* not (yet) a member of the group
JoinsAsNewMember(p) ==
    /\ req[p].kind = "join"
    /\ NeverExpires(req[p].code)
    /\ \A g \in GroupByCode(req[p].code) : Membership(loc[p].userId, g.id) = {}

\* C7: a group stored with no expiresAt is never reported as expired, at any
\* clock value: get-by-code answers 200 with its projection, a join is never
\* answered 410, and the join of a user who is not a member passes every
\* check, inserts the membership and is answered 200.
C7_NoExpiryNeverExpires ==
    /\ [](  (Answered /\ NeverExpires(out.code))
          => /\ out.status # 410
             /\ out.route = "landing" => out.body = "page: Join Group"
             /\ out.route = "get" =>
                  /\ out.status = 200
                  /\ \E g \in GroupByCode(out.code) :
                        /\ out.groupId = g.id
                        /\ out.expiresAt = {}
                        /\ out.memberCount = Cardinality(MembersOf(g.id)))
    /\ [][\A p \in Procs :
            (StepOf(p) /\ out'.logged # "store") =>
                /\ (JoinsAsNewMember(p) /\ pc[p] = "joinFind") => pc'[p] = "joinCheck"
                /\ (JoinsAsNewMember(p) /\ pc[p] = "joinCheck") => pc'[p] = "joinCreate"
                /\ (JoinsAsNewMember(p) /\ pc[p] = "joinCreate") =>
                      /\ pc'[p] = "joinRespond"
                      /\ \E m \in members' \ members :
                            m.userId = loc[p].userId /\ m.groupId = loc[p].groupId
                /\ pc[p] = "joinRespond" => out'.status = 200]_vars

C7_Witness ==
    /\ out.route = "join"
    /\ out.status = 200
    /\ NeverExpires(out.code)
    /\ now >= 2

\* C8: get-by-code, join and the landing page treat a group as expired if and
\* only if its expiresAt is set and strictly less than the clock at the time
\* of the request; expiresAt equal to the clock is not expired.
C8_ExpiryPredicate ==
    /\ [](  (Answered /\ out.route \in {"get", "landing"})
          => \A g \in GroupByCode(out.code) :
                (out.status = 410 \/ out.body = "page: Invitation Expired")
                    <=> (g.expiresAt # {} /\ \A e \in g.expiresAt : e < now))
    /\ [][\A p \in Procs :
            (StepOf(p) /\ pc[p] = "joinFind" /\ out'.logged # "store")
                => \A g \in GroupByCode(req[p].code) :
                      out'.status = 410
                          <=> (g.expiresAt # {} /\ \A e \in g.expiresAt : e < now)]_vars

\* a group is read at the very instant of its expiresAt and is not expired
C8_Witness ==
    /\ out.route \in {"get", "landing"}
    /\ out.status = 200
    /\ out.expiresAt = {now}
    /\ out.groupId # 0

C10_OneUserPerToken ==
    /\ [](\A u1, u2 \in users : u1.deviceToken = u2.deviceToken => u1 = u2)
    /\ [][/\ Cardinality(users') <= Cardinality(users) + 1
          /\ \A p \in Procs :
               (StepOf(p) /\ pc[p] # "idle" /\ UserByToken(req[p].deviceToken) # {})
                   => /\ users' = users
                      /\ (pc[p] = "ensureFind" /\ out'.logged # "store")
                            => \E u \in UserByToken(req[p].deviceToken) :
                                  loc'[p].userId = u.id]_vars

\* two first-time requests with one token interleaved: the second insert was
\* rejected and the token has one row
C10_Witness ==
    /\ out.logged = "P2002 User_deviceToken_key"
    /\ Cardinality(UserByToken(out.deviceToken)) = 1

\* C11: a join whose membership insert is rejected by the unique index on
\* (userId, groupId), a concurrent join of the same user having inserted
\* first, is answered 400 'already a member' and not a generic failure.
\* (the group is the one stored before the two joins arrived, so the insert
\* that won is a join's)
C11_LostRaceIsAlreadyMember ==
    (/\ out.route = "join"
     /\ out.code = SeededCode
     /\ out.logged = "P2002 GroupMember_userId_groupId_key")
        => /\ out.status = 400
           /\ out.body = "User is already a member of this group"

\* C12: the memberCount of a 200 join response is the number of GroupMember
\* rows of the group right after that request's insert.
\* (the group is the one stored before the joins arrived, so the other
\* inserts are joins of other users)
C12_MemberCountIsNewTotal ==
    (out.route = "join" /\ out.code = SeededCode /\ out.status = 200)
        => out.memberCount = out.hist.countAfter

\* C13: whenever a create-group request provides expirationHours (0 and
\* negative numbers included) the computed, stored and returned expiresAt is
\* the clock at the computation plus that many hours; expiresAt is unset
\* exactly when expirationHours is not provided.
C13_ExpiresAtFromHours ==
    [][\A p \in Procs :
        /\ (pc[p] = "allocate" /\ pc'[p] = "groupCreate")
              => loc'[p].expiresAt = {now + h : h \in req[p].expirationHours}
        /\ (pc[p] = "groupCreate" /\ pc'[p] = "memberCreate")
              => \E g \in groups' \ groups : g.expiresAt = loc[p].expiresAt
        /\ (pc[p] = "createRespond" /\ StepOf(p))
              => out'.expiresAt = loc[p].expiresAt]_vars

ValidationMessages ==
    {"deviceToken and modelId are required", "deviceToken is required"}

\* C14: a create-group request without deviceToken or modelId and a join
\* request without deviceToken are answered 400 at once: no handler goes on
\* with such a request, and the step that answers leaves the three tables and
\* every request in flight as they were (no user, no invite code).
C14_ValidationRejects ==
    /\ [](\A p \in Procs :
            pc[p] # "idle" =>
                /\ req[p].deviceToken # ""
                /\ req[p].kind = "create" => req[p].modelId # "")
    /\ [](  (\/ out.route = "create" /\ (out.deviceToken = "" \/ out.modelId = "")
             \/ out.route = "join" /\ out.deviceToken = "")
          => (out.status = 400 /\ out.body \in ValidationMessages))
    /\ [][out'.body \in ValidationMessages
            => /\ users' = users /\ groups' = groups /\ members' = members
               /\ pc' = pc /\ loc' = loc]_vars

C14_Witness ==
    /\ out.route = "create"
    /\ out.deviceToken = "t1"
    /\ out.modelId = ""
    /\ out.status = 400

\* C15: a create-group request whose store operation throws is answered 500
\* and that step changes none of the tables (earlier writes are kept); a group
\* left without member rows is served by get-by-code with memberCount 0.
C15_FailureKeepsWrites ==
    /\ [][\A p \in Procs :
            (StepOf(p) /\ req[p].kind = "create" /\ out'.logged # "")
                => /\ out'.status = 500
                   /\ out'.body = "Internal server error"
                   /\ users' = users /\ groups' = groups /\ members' = members]_vars
    /\ [](  (Answered /\ out.route = "get")
          => \A g \in GroupByCode(out.code) :
                (MembersOf(g.id) = {} /\ \A e \in g.expiresAt : e >= now)
                    => (out.status = 200 /\ out.groupId = g.id /\ out.memberCount = 0))

\* the group of a create that failed at the membership insert is read back
C15_Witness ==
    /\ out.route = "get"
    /\ out.status = 200
    /\ out.groupId # 0
    /\ out.memberCount = 0
    /\ members = {}

\* C16: a join with a deviceToken answers with the first check that applies,
\* in this order: 404 when no group has the code, else 410 when the group is
\* expired, else 400 when the user is a member, else it inserts the membership
\* and answers 200; a member joining an expired group gets 410.
C16_JoinCheckOrder ==
    [][\A p \in Procs :
        (StepOf(p) /\ req[p].kind = "join" /\ out'.logged # "store") =>
            /\ pc[p] = "joinFind" =>
                 IF GroupByCode(req[p].code) = {}
                 THEN out'.status = 404
                 ELSE \A g \in GroupByCode(req[p].code) :
                        IF g.expiresAt # {} /\ \A e \in g.expiresAt : e < now
                        THEN out'.status = 410
                        ELSE out'.status = 0 /\ pc'[p] = "joinCheck"
            /\ pc[p] = "joinCheck" =>
                 IF Membership(loc[p].userId, loc[p].groupId) # {}
                 THEN /\ out'.status = 400
                      /\ out'.body = "User is already a member of this group"
                 ELSE out'.status = 0 /\ pc'[p] = "joinCreate"
            /\ (pc[p] = "joinCreate" /\ Membership(loc[p].userId, loc[p].groupId) = {}) =>
                 /\ pc'[p] = "joinRespond"
                 /\ Membership(loc[p].userId, loc[p].groupId)' # {}
            /\ pc[p] = "joinRespond" =>
                 /\ out'.status = 200
                 /\ Membership(loc[p].userId, loc[p].groupId) # {}]_vars

\* a member of an expired group joins it again and is answered 410
C16_Witness ==
    /\ out.route = "join"
    /\ out.status = 410
    /\ \E u \in UserByToken(out.deviceToken) : \E g \in GroupByCode(out.code) :
          Membership(u.id, g.id) # {}

\* every code of the code space is the code of a stored group
AllCodesTaken == \A c \in Codes : GroupByCode(c) # {}

\* C17: with a fair draw the allocation loop is left eventually unless every
\* code has become taken; the code it leaves with had no Group row at that
\* lookup; once every code is taken the loop is never left (only a thrown
\* store error ends the request).
C17_AllocationTerminates ==
    /\ \A p \in Procs :
          (pc[p] = "allocate") ~> (pc[p] # "allocate" \/ AllCodesTaken)
    /\ [][\A p \in Procs :
            /\ (pc[p] = "allocate" /\ pc'[p] = "groupCreate")
                  => GroupByCode(loc'[p].inviteCode) = {}
            /\ (pc[p] = "allocate" /\ AllCodesTaken /\ out'.logged # "store")
                  => (pc'[p] = "allocate" /\ AllCodesTaken')]_vars

\* a create-group request is in the loop while every code is taken
C17_Witness ==
    /\ AllCodesTaken
    /\ \E p \in Procs : pc[p] = "allocate"

ReadRoutes == {"get", "landing", "groups", "created", "info", "options"}

\* C18: the step of a read route (get-by-code, the two lists, the landing
\* page, GET /) or of OPTIONS changes none of the three tables, whatever it
\* answers; the list of joined groups of an unseen token is answered 404.
C18_ReadsChangeNothing ==
    /\ [][out'.route \in ReadRoutes
            => (users' = users /\ groups' = groups /\ members' = members)]_vars
    /\ [](  (Answered /\ out.route \in {"groups", "created"}
                      /\ UserByToken(out.deviceToken) = {})
          => (out.status = 404 /\ out.body = "User not found"))
    /\ [](out.route \in {"info", "options"} => out.status = 200)

\* the joined groups of a token without a User row are asked for while the
\* store holds another user
C18_Witness ==
    /\ out.route = "groups"
    /\ out.status = 404
    /\ UserByToken(out.deviceToken) = {}
    /\ users # {}

\* the expiry rule of the spec: expiresAt is set and strictly in the past
PastExpiry(g, t) == g.expiresAt # {} /\ \A e \in g.expiresAt : e < t

\* C19: no step removes or changes a User, Group or GroupMember row, so a
\* group's member set never shrinks and its inviteCode, creatorId and
\* expiresAt never change; the clock does not go back, so an expired group
\* stays expired and every later get and every later expiry check of a join
\* answers 410.
C19_StoreOnlyGrows ==
    /\ [][/\ users \subseteq users'
          /\ groups \subseteq groups'
          /\ members \subseteq members'
          /\ now' >= now
          /\ \A g \in groups :
                /\ \A h \in groups' : h.id = g.id => h = g
                /\ MembersOf(g.id) \subseteq MembersOf(g.id)'
                /\ PastExpiry(g, now) => PastExpiry(g, now')]_vars
    /\ [](  (Answered /\ out.route = "get")
          => \A g \in GroupByCode(out.code) : PastExpiry(g, now) => out.status = 410)
    /\ [][\A p \in Procs :
            (StepOf(p) /\ pc[p] = "joinFind" /\ out'.logged # "store")
                => \A g \in GroupByCode(req[p].code) :
                      PastExpiry(g, now) => out'.status = 410]_vars

\* a group with members is expired and a join is answered 410
C19_Witness ==
    /\ out.route = "join"
    /\ out.status = 410
    /\ \E g \in GroupByCode(out.code) : MembersOf(g.id) # {} /\ PastExpiry(g, now)

JoinRefusals == {404, 410, 400}

\* C20: a join answered 404, 410 or 400 'already a member' has inserted no
\* GroupMember row, and no step of a join changes the Group table; the only
\* row such a join adds is the User row of an unseen token, inserted by
\* ensureUser before the group lookup and still stored when the join is
\* answered.
C20_FailedJoinFrame ==
    /\ [](  (/\ out.route = "join"
             /\ out.status \in JoinRefusals
             /\ out.body \notin ValidationMessages)
          => /\ out.hist.countAfter = 0
             /\ UserByToken(out.deviceToken) # {})
    /\ [][\A p \in Procs :
            (StepOf(p) /\ req[p].kind = "join") =>
                /\ groups' = groups
                /\ users \subseteq users'
                /\ pc[p] # "ensureCreate" => users' = users
                /\ pc[p] # "joinCreate" => members' = members
                /\ pc[p] \in {"joinFind", "joinCheck"} =>
                      \E u \in UserByToken(req[p].deviceToken) : u.id = loc[p].userId]_vars

\* the first request ever is a join for an unknown code: it is answered 404
\* and the User row it inserted is stored
C20_Witness ==
    /\ out.route = "join"
    /\ out.status = 404
    /\ nreq = 1
    /\ \E u \in users : users = {u} /\ u.deviceToken = out.deviceToken
    /\ groups = {} /\ members = {}

\* C21: a join never inserts a GroupMember row into a group that is expired
\* at the moment of the insert, also when the clock advances between the
\* join's expiry check and its groupMember.create.
C21_NoInsertIntoExpired ==
    [][\A p \in Procs :
         (StepOf(p) /\ pc[p] = "joinCreate" /\ members' # members)
             => ~PastExpiry(GroupById(loc[p].groupId), now)]_vars

====
